---------------------------- MODULE Spec2Model ----------------------------
(***************************************************************************)
(* A model of the README generator's collection and selection pipeline:    *)
(*   readmegen/collector/collector.py  (sanitize_env, head_lines,          *)
(*                                      read_with_rules, collect)          *)
(*   readmegen/assessor/assessor.py    (assess_files)                      *)
(*   app.py                            (build_selected, api_generate)      *)
(*                                                                         *)
(* The specifications share the variables below; each one drives the       *)
(* variables of its own component and leaves the others idle:              *)
(*   SpecText     one file read through read_with_rules, character level   *)
(*   SpecCaps     the same read, on texts around the line caps             *)
(*   SpecCollect  collect() run twice over one directory tree              *)
(*   SpecAssess   api_generate with the scoring batch dispatched request   *)
(*                by request (SpecAssessFair adds the scheduling fairness) *)
(*   Spec         api_generate with arbitrary assessments                  *)
(*                                                                         *)
(* A text is a sequence of one-character strings in SpecText.  In the      *)
(* other specifications a text is represented by its length, the only      *)
(* thing collect() and assess_files() compute from it.                     *)
(***************************************************************************)
EXTENDS Integers, Sequences, FiniteSets, TLC

VARIABLES
    \* ---- read_with_rules (SpecText)
    p,              \* the file read: [name, text, readable]
    raw,            \* the text read_with_rules returns
    rpc,            \* "open" | "read"
    \* ---- collect (SpecCollect)
    tree,           \* the directory tree: [dirs, files], per directory path
    include_readme, \* collect's argument
    run,            \* which of the two runs of collect() is executing
    stack,          \* os.walk's stack of directories still to visit
    dirpath,        \* the directory os.walk yielded last
    dirnames,       \* its sub-directories, after pruning, in enumeration order
    filenames,      \* its sorted file names still to process
    seen,           \* collect's `seen`
    total,          \* collect's `total`
    cpc,            \* "walk" | "files" | "returned"
    firstDocs,      \* what the first run returned
    \* ---- shared by collect, assess_files and api_generate
    docs,           \* the collected documents: a sequence of [source, content]
    \* ---- assess_files (SpecAssess)
    inputs,         \* the request payloads, one per document
    dispatched,     \* how many requests the pool has handed to a worker
    inflight,       \* the requests sent and not yet answered
    results,        \* the futures' results, by request position
    \* ---- build_selected / api_generate (Spec, SpecAssess)
    relevance,      \* the threshold
    assessments,    \* what assess_files returned
    k,              \* the position of the zip loop in build_selected
    selected,       \* build_selected's `selected`, then api_generate's
    logs,           \* the log trail
    pc              \* api_generate's position

textVars    == <<p, raw, rpc>>
collectVars == <<tree, include_readme, run, stack, dirpath, dirnames,
                 filenames, seen, total, cpc, firstDocs>>
assessVars  == <<inputs, dispatched, inflight, results>>
apiVars     == <<relevance, assessments, k, selected, logs, pc>>
vars        == <<textVars, collectVars, docs, assessVars, apiVars>>

(***************************************************************************)
(* Bounds of the model.                                                    *)
(***************************************************************************)
MaxLen == 4         \* longest short text, in characters (SpecText)

Min(S) == CHOOSE x \in S : \A y \in S : x <= y
Max(S) == CHOOSE x \in S : \A y \in S : x >= y

(***************************************************************************)
(* Program constants of collector.py.                                      *)
(***************************************************************************)
MAX_FILE_BYTES   == 512 * 1024
MAX_TOTAL_BYTES  == 5 * 1024 * 1024
LOCK_MAX_LINES   == 200
CONFIG_MAX_LINES == 800

\* f"{k}=<YOUR_VALUE>": the text put after the key
PLACEHOLDER == <<"=", "<", "Y", "O", "U", "R", "_", "V", "A", "L", "U", "E", ">">>

\* "\n\n# ...truncated...\n"
TRUNC_MARKER == <<"\n", "\n", "#", " ", ".", ".", ".", "t", "r", "u", "n", "c",
                  "a", "t", "e", "d", ".", ".", ".", "\n">>

(***************************************************************************)
(* str methods, on sequences of characters.  The alphabet of the model     *)
(* holds one line boundary ("\n") and one whitespace character (" ").      *)
(***************************************************************************)
IsSpace(c) == c = " "

Contains(s, c) == \E i \in 1..Len(s) : s[i] = c

StartsWith(s, pre) ==
    /\ Len(s) >= Len(pre)
    /\ SubSeq(s, 1, Len(pre)) = pre

EndsWith(s, suf) ==
    /\ Len(s) >= Len(suf)
    /\ SubSeq(s, Len(s) - Len(suf) + 1, Len(s)) = suf

\* s.lstrip()
LStrip(s) ==
    LET I == {i \in 1..Len(s) : ~IsSpace(s[i])}
    IN  IF I = {} THEN <<>> ELSE SubSeq(s, Min(I), Len(s))

\* s.strip()
Strip(s) ==
    LET I == {i \in 1..Len(s) : ~IsSpace(s[i])}
    IN  IF I = {} THEN <<>> ELSE SubSeq(s, Min(I), Max(I))

\* s.split(c, 1)[0]: the part before the first c (all of s when c is absent)
BeforeFirst(s, c) ==
    LET I == {i \in 1..Len(s) : s[i] = c}
    IN  IF I = {} THEN s ELSE SubSeq(s, 1, Min(I) - 1)

\* s[lo..hi].split("\n"): the pieces between the boundaries, by halving
RECURSIVE SplitRange(_, _, _)
SplitRange(s, lo, hi) ==
    IF lo > hi THEN << <<>> >>
    ELSE IF lo = hi THEN (IF s[lo] = "\n" THEN << <<>>, <<>> >> ELSE << <<s[lo]>> >>)
    ELSE LET mid == (lo + hi) \div 2
             A   == SplitRange(s, lo, mid)
             B   == SplitRange(s, mid + 1, hi)
         IN  SubSeq(A, 1, Len(A) - 1) \o << A[Len(A)] \o B[1] >> \o Tail(B)

\* s.splitlines(): no line for the empty text, none after a final boundary
Splitlines(s) ==
    LET pieces == SplitRange(s, 1, Len(s))
    IN  IF pieces[Len(pieces)] = <<>>
        THEN SubSeq(pieces, 1, Len(pieces) - 1)
        ELSE pieces

\* "\n".join(lines[lo..hi]), by halving
RECURSIVE JoinRange(_, _, _)
JoinRange(lines, lo, hi) ==
    IF lo > hi THEN <<>>
    ELSE IF lo = hi THEN lines[lo]
    ELSE LET mid == (lo + hi) \div 2
         IN  JoinRange(lines, lo, mid) \o <<"\n">> \o JoinRange(lines, mid + 1, hi)

Join(lines) == JoinRange(lines, 1, Len(lines))

(***************************************************************************)
(* collector.py: sanitize_env, head_lines, read_with_rules.                *)
(***************************************************************************)
\* sanitize_env's loop body with the comment test on the unstripped line
SanitizeLine_NoLstrip(line) ==
    IF Contains(line, "=") /\ ~StartsWith(line, <<"#">>)
    THEN LET key == Strip(BeforeFirst(line, "="))
         IN  IF key # <<>> THEN key \o PLACEHOLDER ELSE line
    ELSE line

\* the body of sanitize_env's loop: what one line contributes to `out`
SanitizeLine(line) ==
    IF Contains(line, "=") /\ ~StartsWith(LStrip(line), <<"#">>)
    THEN LET key == Strip(BeforeFirst(line, "="))
         IN  IF key # <<>> THEN key \o PLACEHOLDER ELSE line
    ELSE line

sanitize_env(text) ==
    LET lines == Splitlines(text)
    IN  Join([i \in 1..Len(lines) |-> SanitizeLine(lines[i])])

head_lines(text, n) ==
    LET lines == Splitlines(text)
    IN  IF Len(lines) <= n THEN text
        ELSE Join(SubSeq(lines, 1, n)) \o TRUNC_MARKER

(***************************************************************************)
(* pathlib and str, on file names (strings).                               *)
(***************************************************************************)
CharAt(name, i) == SubSeq(name, i, i)

\* name.startswith(pre)
NameStartsWith(name, pre) ==
    /\ Len(name) >= Len(pre)
    /\ SubSeq(name, 1, Len(pre)) = pre

\* PurePath.suffix: from the last dot, unless the name starts or ends with it
Suffix(name) ==
    LET I == {i \in 1..Len(name) : CharAt(name, i) = "."}
    IN  IF I = {} \/ Max(I) = 1 \/ Max(I) = Len(name)
        THEN ""
        ELSE SubSeq(name, Max(I), Len(name))

(***************************************************************************)
(* readmegen/collector/import_filenames.py is not among the source files:  *)
(* its tables are filled in from the specification's description of them   *)
(* (an allow-list of source/config/doc extensions, key filenames, a        *)
(* skip-list of directories, the lock-file names).                         *)
(***************************************************************************)
INCLUDE_EXTS   == {".py", ".js", ".json", ".yaml", ".yml", ".toml", ".md"}
KEY_FILENAMES  == {"package.json", "package-lock.json", "Dockerfile", "Makefile"}
SKIP_DIRS      == {".git", "node_modules", "dist", "__pycache__"}
LOCK_BASENAMES == {"package-lock.json", "yarn.lock", "poetry.lock"}

is_lock_like(name) == name \in LOCK_BASENAMES \/ Suffix(name) = ".lock"

\* f.read(max_bytes).decode("utf-8", errors="ignore"), "" when the read raises.
\* The characters of the model are ASCII: one byte each, none dropped.
read_bytes_as_text(file, max_bytes) ==
    IF file.readable
    THEN SubSeq(file.text, 1, IF Len(file.text) < max_bytes
                              THEN Len(file.text) ELSE max_bytes)
    ELSE <<>>

\* read_with_rules after its first line: the rules applied to the decoded text
apply_rules(name, decoded) ==
    LET text == IF NameStartsWith(name, ".env") THEN sanitize_env(decoded)
                ELSE decoded
    IN  IF is_lock_like(name) THEN head_lines(text, LOCK_MAX_LINES)
        ELSE IF Suffix(name) \in {".json", ".yaml", ".yml"}
             THEN head_lines(text, CONFIG_MAX_LINES)
             ELSE text

read_with_rules(file) ==
    apply_rules(file.name, read_bytes_as_text(file, MAX_FILE_BYTES))

(***************************************************************************)
(* SpecText and SpecCaps: one file, read through read_with_rules.  In      *)
(* SpecText the file's text is any text of at most MaxLen characters; in   *)
(* SpecCaps it is a text of identical lines around the two line caps.      *)
(***************************************************************************)
Alphabet == {"K", "V", "=", "#", " ", "\n"}

ShortTexts == UNION {[1..n -> Alphabet] : n \in 0..MaxLen}

\* n copies of `line`, each but the last followed by "\n", then `tail`
RepeatLines(line, n, tail) ==
    LET w == Len(line) + 1
    IN  [i \in 1..(n * w - 1) |->
            IF (i - 1) % w = Len(line) THEN "\n" ELSE line[((i - 1) % w) + 1]]
        \o tail

LongLineCounts == {LOCK_MAX_LINES, LOCK_MAX_LINES + 1,
                   CONFIG_MAX_LINES, CONFIG_MAX_LINES + 1}

LongTexts ==
    {RepeatLines(line, n, tail) :
        line \in {<<>>, <<"K">>, <<"K", "=", "V">>},
        n \in LongLineCounts,
        tail \in {<<>>, <<"\n">>, <<"\n", "\n">>}}

\* a few texts far under the caps
FewLineTexts == {<<>>, <<"K">>, <<"K", "=", "V", "\n">>, <<"\n", "\n">>}

TextFileNames == {".env", ".env.yaml", "package-lock.json", "Cargo.lock",
                  "config.json", "app.py"}

IdleText ==
    /\ p = [name |-> "", text |-> <<>>, readable |-> FALSE]
    /\ raw = <<>>
    /\ rpc = "idle"

InitText ==
    /\ p \in [name : TextFileNames, text : ShortTexts, readable : BOOLEAN]
    /\ raw = <<>>
    /\ rpc = "open"

InitCaps ==
    /\ p \in [name : TextFileNames, text : LongTexts \cup FewLineTexts,
              readable : BOOLEAN]
    /\ raw = <<>>
    /\ rpc = "open"

ReadWithRules ==
    /\ rpc = "open"
    /\ raw' = read_with_rules(p)
    /\ rpc' = "read"
    /\ UNCHANGED <<p, collectVars, docs, assessVars, apiVars>>

(***************************************************************************)
(* The idle values of the components a specification does not drive.       *)
(***************************************************************************)
IdleCollect ==
    /\ tree = [dirs |-> <<>>, files |-> <<>>]
    /\ include_readme = FALSE
    /\ run = 0
    /\ stack = <<>>
    /\ dirpath = <<>>
    /\ dirnames = <<>>
    /\ filenames = <<>>
    /\ seen = {}
    /\ total = 0
    /\ cpc = "idle"
    /\ firstDocs = <<>>

IdleAssess ==
    /\ inputs = <<>>
    /\ dispatched = 0
    /\ inflight = {}
    /\ results = <<>>

IdleApi ==
    /\ relevance = 0
    /\ assessments = <<>>
    /\ k = 0
    /\ selected = <<>>
    /\ logs = <<>>
    /\ pc = "idle"

NextText == ReadWithRules

InitSpecText ==
    InitText /\ IdleCollect /\ docs = <<>> /\ IdleAssess /\ IdleApi

InitSpecCaps ==
    InitCaps /\ IdleCollect /\ docs = <<>> /\ IdleAssess /\ IdleApi

SpecText == InitSpecText /\ [][NextText]_vars

SpecCaps == InitSpecCaps /\ [][NextText]_vars

(***************************************************************************)
(* str comparison and case, on file names: sorted() orders names by code   *)
(* point, name.lower() maps the upper-case letters.                        *)
(***************************************************************************)
\* the printable ASCII characters by code point: 32..95, then 97..126
AsciiTo95   == " !\"#$%&'()*+,-./0123456789:;<=>?@ABCDEFGHIJKLMNOPQRSTUVWXYZ[\\]^_"
AsciiFrom97 == "abcdefghijklmnopqrstuvwxyz{|}~"

CodePoints == (32..126) \ {96}

Chr(n) == IF n <= 95 THEN CharAt(AsciiTo95, n - 31) ELSE CharAt(AsciiFrom97, n - 96)

Ord == [c \in {Chr(n) : n \in CodePoints} |-> CHOOSE n \in CodePoints : Chr(n) = c]

\* a < b, as Python compares str
StrLess(a, b) ==
    \E i \in 1..(Len(a) + 1) :
        /\ \A j \in 1..(i - 1) : j <= Len(b) /\ CharAt(a, j) = CharAt(b, j)
        /\ i <= Len(b)
        /\ i <= Len(a) => Ord[CharAt(a, i)] < Ord[CharAt(b, i)]

\* sorted(names), for a set of distinct names
RECURSIVE sorted(_)
sorted(names) ==
    IF names = {} THEN <<>>
    ELSE LET first == CHOOSE x \in names : \A y \in names \ {x} : StrLess(x, y)
         IN  <<first>> \o sorted(names \ {first})

LowerChar(c) == IF Ord[c] >= 65 /\ Ord[c] <= 90 THEN Chr(Ord[c] + 32) ELSE c

\* name.lower()
RECURSIVE Lower(_)
Lower(name) ==
    IF Len(name) = 0 THEN ""
    ELSE LowerChar(CharAt(name, 1)) \o Lower(SubSeq(name, 2, Len(name)))

(***************************************************************************)
(* collector.py: should_include and collect.                               *)
(*                                                                         *)
(* A directory path is the sequence of names below the root.  A file is    *)
(* [name, kind, len]: kind is "file" where Path.is_file() holds, len is    *)
(* the length of the text read_with_rules returns for it, which stands     *)
(* for that text.  The tree does not change between the two runs.          *)
(***************************************************************************)
MaxFiles == 11      \* most files in the root of a flat tree (SpecCollect)

should_include(name) ==
    \/ Suffix(name) \in INCLUDE_EXTS
    \/ name \in KEY_FILENAMES
    \/ NameStartsWith(name, ".env")

README_NAMES == {"readme", "readme.md", "readme.rst", "readme.txt"}

\* str(p.relative_to(rootp)).replace("\\", "/")
RECURSIVE RelPath(_, _)
RelPath(dir, name) ==
    IF dir = <<>> THEN name ELSE Head(dir) \o "/" \o RelPath(Tail(dir), name)

\* len(text), a text being represented by its length
TextLen(text) == text

\* the orders in which the operating system may list a set of entries
Orderings(S) ==
    {o \in [1..Cardinality(S) -> S] : \A i, j \in 1..Cardinality(S) : o[i] = o[j] => i = j}

File(name, len) == [name |-> name, kind |-> "file", len |-> len]

NestedFiles(dir) ==
    IF dir = <<>> THEN {File("README.md", 7), File("app.py", 3), File(".env", 5),
                        File("notes.bin", 9),
                        [name |-> "run.py", kind |-> "other", len |-> 0]}
    ELSE IF dir = <<"lib">> THEN {File("a.py", 2), File("b.py", 4)}
    ELSE IF dir = <<"src">> THEN {File("a.py", 6), File("Readme.MD", 8)}
    ELSE {File("x.js", 1)}

\* a root with some of the sub-directories lib, src and node_modules
NestedTrees ==
    {[dirs  |-> [d \in {<<>>} \cup {<<n>> : n \in subs} |->
                     IF d = <<>> THEN subs ELSE {}],
      files |-> [d \in {<<>>} \cup {<<n>> : n \in subs} |-> NestedFiles(d)]] :
        subs \in SUBSET {"lib", "src", "node_modules"}}

FlatNames == <<"f01.py", "f02.py", "f03.py", "f04.py", "f05.py", "f06.py", "f07.py",
               "f08.py", "f09.py", "f10.py", "f11.py", "f12.py", "f13.py">>

\* a root of up to MaxFiles files, each as large as one read allows or one less
FlatTrees ==
    {[dirs  |-> [d \in {<<>>} |-> {}],
      files |-> [d \in {<<>>} |-> {File(FlatNames[i], lens[i]) : i \in DOMAIN lens}]] :
        lens \in UNION {[1..n -> {MAX_FILE_BYTES - 1, MAX_FILE_BYTES}] : n \in 0..MaxFiles}}

\* the state on entry to collect(root, include_readme), after line 61
Entered ==
    /\ stack = << <<>> >>
    /\ dirpath = <<>>
    /\ dirnames = <<>>
    /\ filenames = <<>>
    /\ docs = <<>>
    /\ seen = {}
    /\ total = 0
    /\ cpc = "walk"

InitCollect ==
    /\ \E call \in (NestedTrees \X BOOLEAN) \cup (FlatTrees \X {FALSE}) :
           /\ tree = call[1]
           /\ include_readme = call[2]
    /\ run = 1
    /\ firstDocs = <<>>
    /\ Entered

\* os.walk yields the next directory; line 64 prunes its sub-directories and
\* line 67 sorts its file names
WalkNext ==
    /\ cpc = "walk"
    /\ stack # <<>>
    /\ \E order \in Orderings(tree.dirs[Head(stack)]) :
           dirnames' = SelectSeq(order, LAMBDA d : d \notin SKIP_DIRS)
    /\ dirpath' = Head(stack)
    /\ filenames' = sorted({f.name : f \in tree.files[Head(stack)]})
    /\ stack' = Tail(stack)
    /\ cpc' = "files"
    /\ UNCHANGED <<tree, include_readme, run, seen, total, firstDocs, docs>>
    /\ UNCHANGED <<textVars, assessVars, apiVars>>

\* one pass of the loop over sorted(filenames), lines 67-86
VisitFile ==
    /\ cpc = "files"
    /\ filenames # <<>>
    /\ LET fn   == Head(filenames)
           f    == CHOOSE x \in tree.files[dirpath] : x.name = fn
           rel  == RelPath(dirpath, fn)
           skip == \/ f.kind # "file"
                   \/ ~include_readme /\ Lower(fn) \in README_NAMES
                   \/ ~should_include(fn)
                   \/ rel \in seen
           text == f.len
       IN  IF skip
           THEN UNCHANGED <<docs, seen, total, cpc>>
           ELSE /\ docs' = Append(docs, [source |-> rel, content |-> text])
                /\ seen' = seen \cup {rel}
                /\ total' = total + TextLen(text)
                /\ cpc' = IF total + TextLen(text) >= MAX_TOTAL_BYTES
                          THEN "returned" ELSE cpc
    /\ filenames' = Tail(filenames)
    /\ UNCHANGED <<tree, include_readme, run, stack, dirpath, dirnames, firstDocs>>
    /\ UNCHANGED <<textVars, assessVars, apiVars>>

\* the directory's files are done: os.walk resumes and stacks the
\* sub-directories left in dirnames, the first to be visited next
EndDir ==
    /\ cpc = "files"
    /\ filenames = <<>>
    /\ stack' = [i \in 1..Len(dirnames) |-> Append(dirpath, dirnames[i])] \o stack
    /\ cpc' = "walk"
    /\ UNCHANGED <<tree, include_readme, run, dirpath, dirnames, filenames,
                   seen, total, firstDocs, docs>>
    /\ UNCHANGED <<textVars, assessVars, apiVars>>

\* the walk is exhausted: line 87
Return ==
    /\ cpc = "walk"
    /\ stack = <<>>
    /\ cpc' = "returned"
    /\ UNCHANGED <<tree, include_readme, run, stack, dirpath, dirnames, filenames,
                   seen, total, firstDocs, docs>>
    /\ UNCHANGED <<textVars, assessVars, apiVars>>

\* collect() is called again with the same arguments on the same tree
Rerun ==
    /\ cpc = "returned"
    /\ run = 1
    /\ run' = 2
    /\ firstDocs' = docs
    /\ stack' = << <<>> >>
    /\ dirpath' = <<>>
    /\ dirnames' = <<>>
    /\ filenames' = <<>>
    /\ docs' = <<>>
    /\ seen' = {}
    /\ total' = 0
    /\ cpc' = "walk"
    /\ UNCHANGED <<tree, include_readme>>
    /\ UNCHANGED <<textVars, assessVars, apiVars>>

NextCollect == WalkNext \/ VisitFile \/ EndDir \/ Return \/ Rerun

InitSpecCollect == IdleText /\ InitCollect /\ IdleAssess /\ IdleApi

SpecCollect == InitSpecCollect /\ [][NextCollect]_vars

(***************************************************************************)
(* Properties of SpecCollect.                                              *)
(***************************************************************************)
RECURSIVE SumLen(_)
SumLen(ds) == IF ds = <<>> THEN 0 ELSE TextLen(Head(ds).content) + SumLen(Tail(ds))

\* C1, as claimed: at every point of the walk, and so whenever collect()
\* returns, the lengths of the collected contents sum to at most
\* MAX_TOTAL_BYTES.
C1_TotalWithinBudget ==
    cpc \in {"walk", "files", "returned"} => SumLen(docs) <= MAX_TOTAL_BYTES

\* C5, as claimed: a second run of collect() over the same tree with the
\* same include_readme returns the documents of the first run, in the same
\* order, however each directory's entries are enumerated.
C5_RunsAgree ==
    (run = 2 /\ cpc = "returned") => docs = firstDocs

(***************************************************************************)
(* app.py: build_selected and api_generate, after the request's path has   *)
(* been checked and collect() has returned `docs`.                         *)
(*                                                                         *)
(* An assessment is [valid, path, score, include, reason, summary]; valid  *)
(* is FALSE for an object whose score int() does not accept.               *)
(***************************************************************************)
MaxSelDocs == 2     \* most collected documents (Spec)
MaxDocs == 9        \* most collected documents (SpecAssess)

DEFAULT_RELEVANCE == 3

\* the range pydantic accepts for FileAssessment.score
MIN_SCORE == 0
MAX_SCORE == 5

\* the thresholds a request may carry: below, inside and above the scores
Thresholds == (MIN_SCORE - 1)..(MAX_SCORE + 1)

\* lines 32-35 with `>` for `>=`
SelectionOk_Strict(a, threshold) == a.include /\ a.score > threshold

\* lines 32-35 with the comparison turned round
SelectionOk_Reversed(a, threshold) == a.include /\ a.score <= threshold

\* lines 32-35: bool(a.include) and int(a.score) >= relevance
SelectionOk(a, threshold) == a.include /\ a.score >= threshold

\* int(getattr(a, "score", 0)) raises; it is evaluated only when include holds
Raises(a) == a.include /\ ~a.valid

\* lines 37-40: the assessment without its summary, with the document's content
Row(a, src) ==
    [path    |-> IF a.path # "" THEN a.path ELSE src.source,
     score   |-> a.score,
     include |-> a.include,
     reason  |-> a.reason,
     content |-> src.content]

\* lines 42-44 with the error emptying the selection built so far
ZipPass_DropsAllOnError(sel, lg, a, src, threshold) ==
    IF Raises(a)
    THEN [selected |-> <<>>, logs |-> Append(lg, "Skipped one file due to error")]
    ELSE IF SelectionOk(a, threshold)
         THEN [selected |-> Append(sel, Row(a, src)), logs |-> lg]
         ELSE [selected |-> sel, logs |-> lg]

\* one pass of the zip loop, lines 30-44: the new `selected` and `logs`
ZipPass(sel, lg, a, src, threshold) ==
    IF Raises(a)
    THEN [selected |-> sel, logs |-> Append(lg, "Skipped one file due to error")]
    ELSE IF SelectionOk(a, threshold)
         THEN [selected |-> Append(sel, Row(a, src)), logs |-> lg]
         ELSE [selected |-> sel, logs |-> lg]

\* zip(assessments, docs) stops at the shorter
ZipLen(as, ds) == IF Len(as) < Len(ds) THEN Len(as) ELSE Len(ds)

\* the loop of build_selected from position i on, as a function of its inputs
RECURSIVE ZipFrom(_, _, _, _, _)
ZipFrom(i, acc, as, ds, threshold) ==
    IF i > ZipLen(as, ds) THEN acc
    ELSE ZipFrom(i + 1, ZipPass(acc.selected, acc.logs, as[i], ds[i], threshold),
                 as, ds, threshold)

\* what build_selected returns as `selected` for these assessments
build_selected(as, ds, threshold) ==
    ZipFrom(1, [selected |-> <<>>, logs |-> <<>>], as, ds, threshold).selected

\* line 103 without the fallback: the empty selection is passed on
FallbackSelection_None(ds) == <<>>

\* line 103: every collected document, path and content only
FallbackSelection(ds) ==
    [i \in 1..Len(ds) |-> [path |-> ds[i].source, content |-> ds[i].content]]

\* lines 95-103: the selection api_generate hands to generate_readme_from
Handed(sel, ds) == IF sel # <<>> THEN sel ELSE FallbackSelection(ds)

\* the names of collected documents, in collection order
DocNames == <<"f01.py", "f02.py", "f03.py", "f04.py", "f05.py", "f06.py", "f07.py",
              "f08.py", "f09.py", "f10.py", "f11.py", "f12.py", "f13.py">>

\* n collected documents, of different lengths
DocList(n) == [i \in 1..n |-> [source |-> DocNames[i], content |-> 1000 * i]]

Assessments ==
    [valid : {TRUE}, path : {"", "other.py"}, score : MIN_SCORE..MAX_SCORE,
     include : BOOLEAN, reason : {"r"}, summary : {"s"}]
    \cup {[valid |-> FALSE, path |-> "", score |-> 0, include |-> inc,
           reason |-> "r", summary |-> "s"] : inc \in BOOLEAN}

\* api_generate at line 76: collect() has returned
InitApi ==
    /\ relevance \in Thresholds
    /\ assessments = <<>>
    /\ k = 0
    /\ selected = <<>>
    /\ logs = <<"Project">>
    /\ pc = "collected"

\* lines 77-88
Collected ==
    /\ pc = "collected"
    /\ logs' = Append(logs, "Collected " \o ToString(Len(docs)) \o " files")
    /\ pc' = IF docs = <<>> THEN "error400" ELSE "assess"
    /\ UNCHANGED <<relevance, assessments, k, selected>>
    /\ UNCHANGED <<textVars, collectVars, docs, assessVars>>

\* line 28, the batch taken as one step: one assessment per document
AssessFiles ==
    /\ pc = "assess"
    /\ assessments' \in [1..Len(docs) -> Assessments]
    /\ k' = 1
    /\ selected' = <<>>
    /\ pc' = "zip"
    /\ UNCHANGED <<relevance, logs>>
    /\ UNCHANGED <<textVars, collectVars, docs, assessVars>>

\* lines 30-44, one (assessment, document) pair
ZipStep ==
    /\ pc = "zip"
    /\ k <= ZipLen(assessments, docs)
    /\ LET r == ZipPass(selected, logs, assessments[k], docs[k], relevance)
       IN  /\ selected' = r.selected
           /\ logs' = r.logs
    /\ k' = k + 1
    /\ UNCHANGED <<relevance, assessments, pc>>
    /\ UNCHANGED <<textVars, collectVars, docs, assessVars>>

\* line 45: build_selected returns to line 91
BuildSelectedReturn ==
    /\ pc = "zip"
    /\ k > ZipLen(assessments, docs)
    /\ pc' = "built"
    /\ UNCHANGED <<relevance, assessments, k, selected, logs>>
    /\ UNCHANGED <<textVars, collectVars, docs, assessVars>>

\* lines 92-103: the selection, or every document when it is empty
UseSelection ==
    /\ pc = "built"
    /\ selected' = Handed(selected, docs)
    /\ logs' = Append(logs, "Assessed " \o ToString(Len(assessments))
                            \o " files, selected " \o ToString(Len(selected)))
               \o (IF selected # <<>>
                   THEN <<"Selected files:">>
                        \o [i \in 1..Len(selected) |-> "   - " \o selected[i].path]
                   ELSE <<"No files selected; using all files instead.">>)
    /\ pc' = "synth"
    /\ UNCHANGED <<relevance, assessments, k>>
    /\ UNCHANGED <<textVars, collectVars, docs, assessVars>>

\* lines 106-111: generate_readme_from(selected), and the file written
Generate ==
    /\ pc = "synth"
    /\ logs' = Append(logs, "README written")
    /\ pc' = "done"
    /\ UNCHANGED <<relevance, assessments, k, selected>>
    /\ UNCHANGED <<textVars, collectVars, docs, assessVars>>

Next == Collected \/ AssessFiles \/ ZipStep \/ BuildSelectedReturn
            \/ UseSelection \/ Generate

Init ==
    /\ IdleText /\ IdleCollect /\ IdleAssess
    /\ docs \in {DocList(n) : n \in 0..MaxSelDocs}
    /\ InitApi

Spec == Init /\ [][Next]_vars

(***************************************************************************)
(* assessor.py: assess_files.  chain.batch(inputs, {"max_concurrency": 8})  *)
(* hands the requests, in input order, to a pool of max_concurrency         *)
(* workers; each worker sends its request to the scoring service and        *)
(* stores the response as the result of that request; batch returns the     *)
(* results by request position once all are in.  The service answers a      *)
(* request with an assessment that names the request's path.                *)
(***************************************************************************)
max_concurrency == 8

CLIP_LIMIT == 4000

\* _clip(s): the length of the sample, a text being represented by its length
clip(text) == IF text <= CLIP_LIMIT THEN text ELSE CLIP_LIMIT + Len(TRUNC_MARKER)

\* PurePath.name: the part after the last "/"
BaseName(rel) ==
    LET I == {i \in 1..Len(rel) : CharAt(rel, i) = "/"}
    IN  IF I = {} THEN rel ELSE SubSeq(rel, Max(I) + 1, Len(rel))

\* lines 89-94: the payload built from one document
Request(f) ==
    [path   |-> f.source,
     ext    |-> Lower(Suffix(BaseName(f.source))),
     size   |-> TextLen(f.content),
     sample |-> clip(f.content)]

\* the scoring service's answer to one request
Service(req) ==
    [valid |-> TRUE, path |-> req.path,
     score |-> (req.size \div 1000) % (MAX_SCORE + 1),
     include |-> TRUE, reason |-> "r", summary |-> "s"]

\* the pool with room for one request more than max_concurrency
CanDispatch_OffByOne(flying) == Cardinality(flying) <= max_concurrency

\* a worker is free
CanDispatch(flying) == Cardinality(flying) < max_concurrency

\* the results in the reverse of input order
BatchResults_Reversed(res, n) == [i \in 1..n |-> res[n + 1 - i]]

\* what batch returns: the results in input order
BatchResults(res, n) == [i \in 1..n |-> res[i]]

\* lines 88-96
BuildInputs ==
    /\ pc = "assess"
    /\ inputs' = [i \in 1..Len(docs) |-> Request(docs[i])]
    /\ dispatched' = 0
    /\ inflight' = {}
    /\ results' = <<>>
    /\ pc' = "batch"
    /\ UNCHANGED <<relevance, assessments, k, selected, logs>>
    /\ UNCHANGED <<textVars, collectVars, docs>>

\* a free worker takes the next request of the queue and sends it
Dispatch ==
    /\ pc = "batch"
    /\ dispatched < Len(inputs)
    /\ CanDispatch(inflight)
    /\ dispatched' = dispatched + 1
    /\ inflight' = inflight \cup {dispatched + 1}
    /\ UNCHANGED <<inputs, results>>
    /\ UNCHANGED <<textVars, collectVars, docs, apiVars>>

\* the service answers one of the requests in flight, in any order
Respond ==
    /\ pc = "batch"
    /\ \E i \in inflight :
           /\ results' = [j \in DOMAIN results \cup {i} |->
                             IF j = i THEN Service(inputs[i]) ELSE results[j]]
           /\ inflight' = inflight \ {i}
    /\ UNCHANGED <<inputs, dispatched>>
    /\ UNCHANGED <<textVars, collectVars, docs, apiVars>>

\* lines 98-99: every request answered, batch returns and so does assess_files
BatchReturn ==
    /\ pc = "batch"
    /\ dispatched = Len(inputs)
    /\ inflight = {}
    /\ assessments' = BatchResults(results, Len(inputs))
    /\ k' = 1
    /\ selected' = <<>>
    /\ pc' = "zip"
    /\ UNCHANGED <<relevance, logs>>
    /\ UNCHANGED <<textVars, collectVars, docs, assessVars>>

NextAssess == Collected \/ BuildInputs \/ Dispatch \/ Respond \/ BatchReturn
                  \/ ZipStep \/ BuildSelectedReturn \/ UseSelection \/ Generate

InitSpecAssess ==
    /\ IdleText /\ IdleCollect /\ IdleAssess
    /\ docs \in {DocList(n) : n \in 0..MaxDocs}
    /\ InitApi
    /\ relevance = DEFAULT_RELEVANCE

SpecAssess == InitSpecAssess /\ [][NextAssess]_vars

\* the pool's workers take queued requests, and the service answers
SpecAssessFair ==
    InitSpecAssess /\ [][NextAssess]_vars /\ WF_vars(Dispatch) /\ WF_vars(Respond)

(***************************************************************************)
(* Properties of SpecText.                                                 *)
(***************************************************************************)
Decoded == read_bytes_as_text(p, MAX_FILE_BYTES)

IsEnvName(name) == NameStartsWith(name, ".env")

\* the line cap read_with_rules applies to a file of this name, 0 for none
LineCap(name) ==
    IF name \in LOCK_BASENAMES \/ Suffix(name) = ".lock" THEN LOCK_MAX_LINES
    ELSE IF Suffix(name) \in {".json", ".yaml", ".yml"} THEN CONFIG_MAX_LINES
    ELSE 0

\* a .env file read to the end: `raw` is sanitize_env of the decoded text
EnvRead == rpc = "read" /\ IsEnvName(p.name) /\ LineCap(p.name) = 0

\* the lines of the returned text, as raw.split("\n") yields them
RawLines == SplitRange(raw, 1, Len(raw))

\* a line that holds '=' and is not a comment
IsAssignment(line) ==
    /\ \E i \in 1..Len(line) : line[i] = "="
    /\ \A i \in 1..Len(line) :
           line[i] = "#" => \E j \in 1..(i - 1) : line[j] # " "

\* the text before the first '=' of an assignment, without surrounding blanks
KeyOf(line) ==
    LET eq   == Min({i \in 1..Len(line) : line[i] = "="})
        used == {i \in 1..(eq - 1) : line[i] # " "}
    IN  IF used = {} THEN <<>> ELSE SubSeq(line, Min(used), Max(used))

\* C6, as claimed: every line of a .env file that holds '=' and is not a
\* comment comes out as its key followed by =<YOUR_VALUE> (the key taken up
\* to surrounding blanks, the reading most favourable to the claim), and
\* every other line comes out verbatim.
C6_EveryAssignmentRedacted ==
    EnvRead =>
        LET lines == Splitlines(Decoded)
            out   == RawLines
        IN  \A i \in 1..Len(lines) :
                /\ i <= Len(out)
                /\ out[i] = IF IsAssignment(lines[i])
                           THEN KeyOf(lines[i]) \o PLACEHOLDER
                           ELSE lines[i]

\* C6, amended: the returned text is the input's lines joined by "\n"; a
\* line that holds '=', is not a comment and has a non-blank key comes out
\* as the key (without surrounding blanks) followed by =<YOUR_VALUE>, so
\* nothing after its first '=' survives; a line whose key is empty or blank
\* is kept as it is, like the blank, comment and '='-free lines.
C6_KeyedAssignmentsRedacted ==
    EnvRead =>
        LET lines == Splitlines(Decoded)
            out   == RawLines
        IN  /\ Len(out) = IF lines = <<>> THEN 1 ELSE Len(lines)
            /\ lines = <<>> => raw = <<>>
            /\ \A i \in 1..Len(lines) :
                   out[i] = IF IsAssignment(lines[i]) /\ KeyOf(lines[i]) # <<>>
                            THEN KeyOf(lines[i]) \o PLACEHOLDER
                            ELSE lines[i]

\* C6's case: a .env file with a keyed assignment, whose value is replaced,
\* and a line with '=' that is kept (a comment or a line without a key)
C6_Witness ==
    /\ EnvRead
    /\ p.readable
    /\ LET lines == Splitlines(Decoded)
           out   == RawLines
       IN  /\ \E i \in 1..Len(lines) :
                  /\ IsAssignment(lines[i]) /\ KeyOf(lines[i]) # <<>>
                  /\ out[i] # lines[i]
           /\ \E i \in 1..Len(lines) :
                  /\ Contains(lines[i], "=")
                  /\ out[i] = lines[i]

\* C7, as claimed: sanitize_env is idempotent; sanitizing the text that
\* sanitize_env returned gives that text again.
C7_SanitizeIdempotent ==
    EnvRead => sanitize_env(raw) = raw

\* C8, as claimed: a file over its line cap comes back as its first N lines
\* followed by the truncation marker, a file at or under the cap comes back
\* with nothing appended (the lines of a .env file taken as sanitized, the
\* reading most favourable to the claim).
C8_TruncationMarker ==
    (rpc = "read" /\ LineCap(p.name) > 0) =>
        LET N     == LineCap(p.name)
            text  == IF IsEnvName(p.name) THEN sanitize_env(Decoded) ELSE Decoded
            lines == Splitlines(text)
        IN  IF Len(Splitlines(Decoded)) > N
            THEN /\ EndsWith(raw, TRUNC_MARKER)
                 /\ Len(lines) >= N
                 /\ raw = Join(SubSeq(lines, 1, N)) \o TRUNC_MARKER
            ELSE raw = text

\* C8 for the files sanitize_env does not touch: there the claim holds,
\* package-lock.json being cut at LOCK_MAX_LINES.
C8_HoldsWithoutEnv ==
    (rpc = "read" /\ LineCap(p.name) > 0 /\ ~IsEnvName(p.name)) =>
        LET N     == LineCap(p.name)
            lines == Splitlines(Decoded)
        IN  /\ p.name = "package-lock.json" => N = LOCK_MAX_LINES
            /\ IF Len(lines) > N
               THEN /\ EndsWith(raw, TRUNC_MARKER)
                    /\ raw = Join(SubSeq(lines, 1, N)) \o TRUNC_MARKER
               ELSE raw = Decoded

(***************************************************************************)
(* Properties of Spec.                                                     *)
(***************************************************************************)
\* assessment i has include == true and score >= threshold
Qualifies(i, threshold) ==
    /\ assessments[i].include
    /\ assessments[i].valid
    /\ assessments[i].score >= threshold

\* document i is an item of the selection (the documents differ in content)
Appears(sel, i) == \E j \in 1..Len(sel) : sel[j].content = docs[i].content

Paths(sel) == {sel[j].path : j \in 1..Len(sel)}

\* C2, as claimed: document i is in the selection handed to the synthesizer
\* if and only if assessment i has include == true and score >= threshold.
C2_HandedIffQualifies ==
    pc \in {"synth", "done"} =>
        \A i \in 1..Len(docs) : Appears(selected, i) <=> Qualifies(i, relevance)

\* C2, amended: document i is in the selection build_selected returns if and
\* only if assessment i has include == true and score >= threshold, each
\* such document once and in document order; that selection is what the
\* synthesizer is handed whenever some assessment qualifies.
C2_SelectedIffQualifies ==
    /\ pc = "built" =>
           /\ \A i \in 1..Len(docs) : Appears(selected, i) <=> Qualifies(i, relevance)
           /\ Len(selected) = Cardinality({i \in 1..Len(docs) : Qualifies(i, relevance)})
           /\ \A j \in 1..(Len(selected) - 1) : selected[j].content < selected[j + 1].content
    /\ (pc \in {"synth", "done"} /\ \E i \in 1..Len(docs) : Qualifies(i, relevance)) =>
           \A i \in 1..Len(docs) : Appears(selected, i) <=> Qualifies(i, relevance)

\* C2's case: build_selected has returned, one document selected, another
\* marked include but scored under the threshold
C2_Witness ==
    /\ pc = "built"
    /\ \E i, j \in 1..Len(docs) :
           /\ Qualifies(i, relevance) /\ assessments[i].score = relevance
           /\ Appears(selected, i)
           /\ assessments[j].include /\ assessments[j].valid
           /\ assessments[j].score < relevance
           /\ ~Appears(selected, j)

\* C3, as claimed: for t1 <= t2 the paths of the selection passed to
\* synthesis with threshold t2 are among those passed with threshold t1.
C3_HandedMonotone ==
    pc = "synth" =>
        \A t2 \in Thresholds :
            t2 >= relevance =>
                Paths(Handed(build_selected(assessments, docs, t2), docs))
                    \subseteq Paths(selected)

\* C3, amended: for t1 <= t2 the paths of the selection build_selected
\* returns with threshold t2 are among those it returns with t1; the
\* selection passed to synthesis is monotone in the same way as long as the
\* selection with t2 is not empty (when it is empty, every document is
\* passed instead).
C3_SelectedMonotone ==
    /\ pc = "built" =>
           \A t2 \in Thresholds :
               t2 >= relevance =>
                   Paths(build_selected(assessments, docs, t2)) \subseteq Paths(selected)
    /\ pc = "synth" =>
           \A t2 \in Thresholds :
               (t2 >= relevance /\ build_selected(assessments, docs, t2) # <<>>) =>
                   Paths(Handed(build_selected(assessments, docs, t2), docs))
                       \subseteq Paths(selected)

\* C3's case: a higher threshold that drops a selected path and keeps another
C3_Witness ==
    /\ pc = "built"
    /\ \E t2 \in Thresholds :
           /\ t2 > relevance
           /\ build_selected(assessments, docs, t2) # <<>>
           /\ Paths(build_selected(assessments, docs, t2)) # Paths(selected)

\* C4: when no pair qualifies (scores under the threshold, include false, or
\* an error on every pair), the synthesizer is handed every collected
\* document, in collection order, as path and content only; it is never
\* handed an empty selection.
C4_FallbackIsAllDocs ==
    pc \in {"synth", "done"} =>
        /\ selected # <<>>
        /\ (\A i \in 1..Len(docs) : ~Qualifies(i, relevance)) =>
               /\ Len(selected) = Len(docs)
               /\ \A i \in 1..Len(docs) :
                      selected[i] = [path |-> docs[i].source, content |-> docs[i].content]

\* C4's case: several documents, every pair raised an error
C4_Witness ==
    /\ pc = "synth"
    /\ Len(docs) >= 2
    /\ \A i \in 1..Len(docs) : Raises(assessments[i])
    /\ Len(selected) = Len(docs)

\* the items of s at the positions in K, in order
Keep(s, K) ==
    LET at == [j \in 1..Cardinality(K) |->
                  CHOOSE i \in K : Cardinality({m \in K : m < i}) = j - 1]
    IN  [j \in 1..Cardinality(K) |-> s[at[j]]]

\* the warnings build_selected has appended to the logs
Warnings(lg) ==
    Cardinality({j \in 1..Len(lg) : lg[j] = "Skipped one file due to error"})

\* C11: in build_selected an error raised on the pair at one position adds
\* one warning to the logs and drops that item only; the loop goes on to
\* the last position, and the selection is the one build_selected gives
\* for the assessments and documents with the failing pairs left out.
C11_ErrorSkipsOneItem ==
    pc \in {"zip", "built"} =>
        LET done  == 1..(k - 1)
            sound == {i \in done : ~Raises(assessments[i])}
        IN  /\ Warnings(logs) = Cardinality(done \ sound)
            /\ selected = build_selected(Keep(assessments, sound), Keep(docs, sound),
                                         relevance)
            /\ \A i \in done \ sound : ~Appears(selected, i)
            /\ pc = "built" => k - 1 = Len(docs)

\* C11's case: build_selected has returned, the first pair raised an error
\* and was logged, a later pair is selected
C11_Witness ==
    /\ pc = "built"
    /\ Len(docs) >= 2
    /\ Raises(assessments[1])
    /\ Warnings(logs) = 1
    /\ \E i \in 2..Len(docs) : Qualifies(i, relevance) /\ Appears(selected, i)

(***************************************************************************)
(* Properties of SpecAssess and SpecAssessFair.                            *)
(***************************************************************************)
\* C9: whatever the order in which the requests complete, assess_files
\* returns one assessment per document, the assessment at position i being
\* the response to the request built from document i, and every item
\* build_selected selects carries the content of the document its
\* assessment was computed for.
C9_AssessmentsFollowDocuments ==
    pc \in {"zip", "built"} =>
        /\ Len(assessments) = Len(docs)
        /\ \A i \in 1..Len(docs) :
               /\ assessments[i].path = docs[i].source
               /\ assessments[i].score = (docs[i].content \div 1000) % (MAX_SCORE + 1)
        /\ \A j \in 1..Len(selected) :
               \E i \in 1..Len(docs) :
                   /\ selected[j].path = docs[i].source
                   /\ selected[j].content = docs[i].content
                   /\ selected[j].score = assessments[i].score

\* C9's case: more documents than workers, build_selected has returned with
\* several items selected
C9_Witness ==
    /\ pc = "built"
    /\ Len(docs) > max_concurrency
    /\ Len(selected) >= 2
    /\ Len(selected) < Len(docs)

===========================================================================
